---- MODULE Spec2Model ----
(***************************************************************************)
(* Model of roboticsanalyst/tensorl:                                       *)
(*   src/ppo/ppo_hproj.py        main(): PPO with an entropy-projected      *)
(*                               Gaussian policy (specification Spec)      *)
(*   src/common/approximators.py MLP, Quadratic, Linear, Fourier, RFB      *)
(*                               (specification SpecApprox)                *)
(*                                                                         *)
(* Numbers are fixed point: logarithms and entropies are integers in units *)
(* of 1/100.  The division by act_size in the projected scale is kept      *)
(* exact by carrying the used log-scale multiplied by act_size.  IEEE NaN  *)
(* is the reserved code NaN, absorbing in arithmetic and false in every    *)
(* comparison.                                                             *)
(***************************************************************************)
EXTENDS Integers, Sequences, FiniteSets, TLC

VARIABLES
    \* ---- ppo_hproj.main ----
    pc,         \* position in main()
    cfg,        \* hyperparameters and environment description of this run
    graph,      \* graph elements built so far
    itr,        \* loop variable of line 88
    epoch,      \* loop variable of lines 93 / 118
    batches,    \* mini-batches of the running epoch still to be processed
    paths,      \* trajectory batch of the running iteration
    vpar,       \* parameters of v: its output per observation
    mpar,       \* parameters of the policy mean
    l,          \* raw per-dimension scale (indices into the table of scales)
    beta,       \* entropy target 'target_ent'
    loc,        \* Python locals of main(): <<>> is unassigned, <<x>> holds x
    sink,       \* the logger file: rows appended by this run, and the latest row
    hist,       \* history: what the running iteration has done so far
    \* ---- approximators ----
    tvars,      \* tf trainable-variables collection, in creation order
    store,      \* value of every tf variable
    insts,      \* the approximator instances constructed so far
    lastop      \* history: the last call made on the approximators

trainVars == <<pc, cfg, graph, itr, epoch, batches, paths, vpar, mpar, l, beta, loc, sink, hist>>
approxVars == <<tvars, store, insts, lastop>>
vars == <<pc, cfg, graph, itr, epoch, batches, paths, vpar, mpar, l, beta, loc, sink, hist,
          tvars, store, insts, lastop>>

----------------------------------------------------------------------------
\* Bounds of the model
MaxIter == 2
MaxEpochs == 2
MaxInst == 2
MaxTemps == 2

----------------------------------------------------------------------------
\* Fixed-point floats with NaN

NaN == -999999

IsNaN(x) == x = NaN

FAdd(a, b) == IF IsNaN(a) \/ IsNaN(b) THEN NaN ELSE a + b

FSub(a, b) == IF IsNaN(a) \/ IsNaN(b) THEN NaN ELSE a - b

FMul(a, b) == IF IsNaN(a) \/ IsNaN(b) THEN NaN ELSE a * b

\* tf.maximum and tf.minimum: x > y ? x : y and x < y ? x : y, a comparison with
\* nan being false
FMax(a, b) == IF ~IsNaN(a) /\ ~IsNaN(b) /\ a > b THEN a ELSE b

FMin(a, b) == IF ~IsNaN(a) /\ ~IsNaN(b) /\ a < b THEN a ELSE b

FLeq(a, b) == ~IsNaN(a) /\ ~IsNaN(b) /\ a <= b

RECURSIVE FSum(_)
FSum(s) == IF s = <<>> THEN 0 ELSE FAdd(Head(s), FSum(Tail(s)))

HasNaN(s) == \E i \in DOMAIN s : IsNaN(s[i])

Mean(s) == IF HasNaN(s) THEN NaN ELSE FSum(s) \div Len(s)

ISqrt(x) == CHOOSE k \in 0..x : k * k <= x /\ (k + 1) * (k + 1) > x

----------------------------------------------------------------------------
\* Hyperparameters and environment (hyperparameters.py, gym)

Dims == {1, 2, 5}

\* scales 0.5, 1.0, 2.0 and their natural logarithms in 1/100
LogTable == <<-69, 0, 69>>

\* std_noise = 1.0, as an index of LogTable
StdNoise == 2

\* batch_size
BatchSize == 1

\* gamma = 1/2 and lambda_trace = 1/2
GammaNum == 1
GammaDen == 2
LambdaNum == 1
LambdaDen == 2

\* nb_trans of a collected batch; observation t is the t-th step of the episode
NbTransVals == {1, 2}
Observations == 1..2

\* rewards and value estimates are in units of 1/4
RwdVals == {0, 4}
VVals == {0, 4}

\* env.action_space.high / low: symmetric, or low differs in dimension asym
ActHigh(d) == [i \in 1..d |-> 1]
ActLow(d, asym) == [i \in 1..d |-> IF i = asym THEN -2 ELSE -1]

Configs ==
    { [act_size |-> d, act_high |-> ActHigh(d), act_low |-> ActLow(d, a),
       maxiter |-> n, epochs_v |-> ev, epochs_pi |-> ep] :
        d \in Dims, a \in {0, 1}, n \in {0, MaxIter},
        ev \in {0, MaxEpochs}, ep \in {0, MaxEpochs} }

----------------------------------------------------------------------------
\* Entropy-projected scale (ppo_hproj.py lines 48-57)

\* beta_lin = 0.1
BetaLin == 10

\* 0.5 * log(2 pi e) = 1.4189 per dimension
HalfLog2PiE == 142

Log(k) == IF IsNaN(k) THEN NaN ELSE LogTable[k]

\* act_size / 2. * np.log(2.*np.pi*np.e) + tf.reduce_sum(tf.log(l))
RawEntropy(ll) == FAdd(HalfLog2PiE * Len(ll), FSum([i \in DOMAIN ll |-> Log(ll[i])]))

\* beta's initial value
BetaInit(d) == HalfLog2PiE * d + d * LogTable[StdNoise]

\* h = ... - beta
Slack(ll, b) == FSub(RawEntropy(ll), b)

\* log of std = exp(maximum(log l, log l - h / act_size)), times act_size
UsedLogStd(ll, b) ==
    [i \in DOMAIN ll |->
        FMax(FMul(Len(ll), Log(ll[i])), FSub(FMul(Len(ll), Log(ll[i])), Slack(ll, b)))]

\* closed-form entropy of the Gaussian with scale std: 0.5 d log(2 pi e) + sum(log std)
UsedEntropy(ll, b) ==
    LET s == FSum(UsedLogStd(ll, b))
    IN  IF IsNaN(s) THEN NaN ELSE HalfLog2PiE * Len(ll) + s \div Len(ll)

\* MVNPolicy.estimate_entropy(obs): the closed-form entropy of the policy's scale
EstimateEntropy(ll, b) == UsedEntropy(ll, b)

\* MVNPolicy.get_log_prob: determined by the mean's parameters and the scale
LogProb(m, ll, b) == <<m>> \o UsedLogStd(ll, b)

----------------------------------------------------------------------------
\* Value function, GAE, losses

\* session.run(v.output[0], {obs: paths["obs"]}); observation t is step t
VOut(vp, p) == [t \in 1..Len(p.rwd) |-> vp[t]]

RECURSIVE GaeFrom(_, _, _, _, _)
GaeFrom(p, vv, num, den, t) ==
    LET n == Len(p.rwd)
        vnext == IF t = n THEN 0 ELSE (GammaNum * vv[t + 1]) \div GammaDen
        delta == p.rwd[t] + vnext - vv[t]
    IN  IF t = n THEN <<delta>>
        ELSE LET rest == GaeFrom(p, vv, num, den, t + 1)
             IN  <<delta + (GammaNum * num * rest[1]) \div (GammaDen * den)>> \o rest

\* gae(paths, v_values, gamma, lambda): backward recursion over the episode
Gae(p, vv, num, den) == GaeFrom(p, vv, num, den, 1)

\* A mutant of TargetValues: the target of the first epoch is kept
TargetValuesCarried(vv, av) ==
    IF epoch = 0 THEN [t \in DOMAIN vv |-> vv[t] + av[t]] ELSE loc.target_values[1]

\* target_values = v_values + a_values
TargetValues(vv, av) == [t \in DOMAIN vv |-> vv[t] + av[t]]

\* tf.losses.mean_squared_error(v.output[0], target_v)
LossV(vv, tgt) == Mean([t \in DOMAIN vv |-> (vv[t] - tgt[t]) * (vv[t] - tgt[t])])

\* (a_values - np.mean(a_values)) / np.std(a_values); 0/0 is nan
NormAdv(a) ==
    LET n == Len(a)
        s == FSum(a)
        q == n * FSum([i \in DOMAIN a |-> a[i] * a[i]]) - s * s
    IN  IF q = 0 THEN [i \in DOMAIN a |-> NaN]
        ELSE [i \in DOMAIN a |-> (n * a[i] - s) \div ISqrt(q)]

\* 1 - e_clip and 1 + e_clip, in hundredths
ClipLow == 80
ClipHigh == 120

\* tf.clip_by_value(r, 1 - e_clip, 1 + e_clip) = maximum(minimum(r, high), low)
ClipByValue(r) == FMax(FMin(r, ClipHigh), ClipLow)

\* The values loss_pi = -mean(minimum(ratio * adv, clip(ratio) * adv)) can take.
\* With a nan ratio the kernels' treatment of nan decides: under the documented
\* rule of minimum and maximum the clipped term of every sample is kept, under
\* nan-propagating kernels the loss is nan.  With a finite ratio the loss is a
\* function of the new and old log-probabilities and the advantages, nan when an
\* advantage is.
LossPi(lp, oldlp, adv) ==
    IF HasNaN(lp) \/ HasNaN(oldlp)
    THEN { <<FSub(0, Mean([t \in DOMAIN adv |->
                          FMin(FMul(NaN, adv[t]), FMul(ClipByValue(NaN), adv[t]))]))>>,
           <<NaN>> }
    ELSE IF HasNaN(adv) THEN {<<NaN>>} ELSE {lp \o oldlp \o adv}

\* minibatch_idx_list(batch_size, nb_trans): index batches covering 1..n once
MinibatchIdxList(bs, n) ==
    [k \in 1..((n + bs - 1) \div bs) |->
        {i \in 1..n : (k - 1) * bs < i /\ i <= k * bs}]

----------------------------------------------------------------------------
\* main(): state after the hyperparameters are read (lines 17-25)

Unassigned == <<>>

LocInit ==
    [v_values |-> <<>>, a_values |-> <<>>, target_values |-> <<>>, mstde |-> <<>>,
     old_lp |-> <<>>, v_loss_before |-> <<>>, v_loss_after |-> <<>>,
     pi_loss_before |-> <<>>, pi_loss_after |-> <<>>]

\* adv, oldlp, push, pistep, ntarget count the executions of lines 104-109, 115,
\* 117, 126 and 96 in the running iteration; vsnap is v's parameters when the
\* running value epoch was entered; fed is what line 100 last fed as target_v
HistInit == [adv |-> 0, oldlp |-> 0, push |-> 0, pistep |-> 0,
             ntarget |-> 0, vsnap |-> <<>>, fed |-> {}]

NoCall == [op |-> "none", inst |-> 0, value |-> 0]

ApproxIdle == tvars = <<>> /\ store = <<>> /\ insts = <<>> /\ lastop = NoCall

Init ==
    /\ pc = "start"
    /\ cfg \in Configs
    /\ graph = {}
    /\ itr = 0
    /\ epoch = 0
    /\ batches = <<>>
    /\ paths = [rwd |-> <<>>, nb_paths |-> 0]
    /\ vpar = <<>>
    /\ mpar = 0
    /\ l = <<>>
    /\ beta = 0
    /\ loc = LocInit
    /\ sink = [rows |-> 0, last |-> <<>>]
    /\ hist = HistInit
    /\ ApproxIdle

----------------------------------------------------------------------------
\* main(): setup (lines 27-85)

\* lines 28-45: environment, seeds, session, the observation placeholder
SetupInputs ==
    /\ pc = "start"
    /\ graph' = graph \cup {"obs"}
    /\ pc' = "assert"
    /\ UNCHANGED <<cfg, itr, epoch, batches, paths, vpar, mpar, l, beta, loc, sink, hist>>
    /\ UNCHANGED approxVars

\* A mutant of AssertOutcome: the assertion removed
AssertOutcomeUnchecked(high, low) == "build_pi"

\* line 50: assert np.all(act_bound == -env.action_space.low)
AssertOutcome(high, low) ==
    IF \A i \in DOMAIN high : high[i] = -low[i] THEN "build_pi" ELSE "assert_failed"

\* lines 49-50
AssertBounds ==
    /\ pc = "assert"
    /\ pc' = AssertOutcome(cfg.act_high, cfg.act_low)
    /\ UNCHANGED <<cfg, graph, itr, epoch, batches, paths, vpar, mpar, l, beta, loc, sink, hist>>
    /\ UNCHANGED approxVars

\* lines 51-58: mean, l, beta, std, pi
BuildPi ==
    /\ pc = "build_pi"
    /\ graph' = graph \cup {"pi_mean", "l", "beta", "std", "pi"}
    /\ pc' = "build_v"
    /\ UNCHANGED <<cfg, itr, epoch, batches, paths, vpar, mpar, l, beta, loc, sink, hist>>
    /\ UNCHANGED approxVars

\* lines 61-66: v, target_v, loss_v, optimize_v
BuildV ==
    /\ pc = "build_v"
    /\ graph' = graph \cup {"v", "target_v", "loss_v", "optimize_v"}
    /\ pc' = "build_opt"
    /\ UNCHANGED <<cfg, itr, epoch, batches, paths, vpar, mpar, l, beta, loc, sink, hist>>
    /\ UNCHANGED approxVars

\* lines 69-74: advantage, old_log_probs, loss_pi, optimize_pi
BuildPiOpt ==
    /\ pc = "build_opt"
    /\ graph' = graph \cup {"advantage", "old_log_probs", "loss_pi", "optimize_pi"}
    /\ pc' = "init"
    /\ UNCHANGED <<cfg, itr, epoch, batches, paths, vpar, mpar, l, beta, loc, sink, hist>>
    /\ UNCHANGED approxVars

\* lines 79-85: global_variables_initializer, mean.reset(0.), v.reset(0.), logger;
\* mpar is 0 as reset, 1 once a gradient step has moved it, NaN once it is nan
InitVariables ==
    /\ pc = "init"
    /\ l' = [i \in 1..cfg.act_size |-> StdNoise]
    /\ beta' = BetaInit(cfg.act_size)
    /\ mpar' = 0
    /\ vpar' = [t \in Observations |-> 0]
    /\ pc' = "loop"
    /\ UNCHANGED <<cfg, graph, itr, epoch, batches, paths, loc, sink, hist>>
    /\ UNCHANGED approxVars

----------------------------------------------------------------------------
\* main(): one iteration of the loop (lines 88-139)

\* collect_samples: one episode of n steps with reward x at every step
PathSet ==
    { [rwd |-> [t \in 1..n |-> x], nb_paths |-> 1] : n \in NbTransVals, x \in RwdVals }

\* lines 88-90: for itr in range(maxiter): paths = collect_samples(...)
Collect ==
    /\ pc = "loop"
    /\ itr < cfg.maxiter
    /\ paths' \in PathSet
    /\ epoch' = 0
    /\ hist' = [HistInit EXCEPT !.vsnap = vpar]
    /\ pc' = "v_epoch"
    /\ UNCHANGED <<cfg, graph, itr, batches, vpar, mpar, l, beta, loc, sink>>
    /\ UNCHANGED approxVars

\* lines 93-98: the head of one value epoch
VEpochBegin ==
    /\ pc = "v_epoch"
    /\ epoch < cfg.epochs_v
    /\ LET vv == VOut(vpar, paths)
           av == Gae(paths, vv, LambdaNum, LambdaDen)
           tv == TargetValues(vv, av)
       IN  /\ loc' = [loc EXCEPT !.v_values = <<vv>>, !.a_values = <<av>>,
                                 !.target_values = <<tv>>,
                                 !.v_loss_before =
                                     IF epoch = 0 THEN <<LossV(vv, tv)>> ELSE @]
           /\ hist' = [hist EXCEPT !.ntarget = @ + 1, !.fed = {}]
    /\ batches' = MinibatchIdxList(BatchSize, Len(paths.rwd))
    /\ pc' = "v_batch"
    /\ UNCHANGED <<cfg, graph, itr, epoch, paths, vpar, mpar, l, beta, sink>>
    /\ UNCHANGED approxVars

\* lines 99-100: session.run(optimize_v, ...) on one mini-batch
VStep ==
    /\ pc = "v_batch"
    /\ batches # <<>>
    /\ \E x \in VVals :
           vpar' = [t \in DOMAIN vpar |-> IF t \in Head(batches) THEN x ELSE vpar[t]]
    /\ hist' = [hist EXCEPT !.fed =
                    {<<t, loc.target_values[1][t]>> : t \in Head(batches)}]
    /\ batches' = Tail(batches)
    /\ UNCHANGED <<pc, cfg, graph, itr, epoch, paths, mpar, l, beta, loc, sink>>
    /\ UNCHANGED approxVars

\* line 99 exhausted: next epoch
VEpochEnd ==
    /\ pc = "v_batch"
    /\ batches = <<>>
    /\ epoch' = epoch + 1
    /\ hist' = [hist EXCEPT !.vsnap = vpar]
    /\ pc' = "v_epoch"
    /\ UNCHANGED <<cfg, graph, itr, batches, paths, vpar, mpar, l, beta, loc, sink>>
    /\ UNCHANGED approxVars

\* line 101: v_loss_after reads target_values; unassigned raises UnboundLocalError
VLossAfter ==
    /\ pc = "v_epoch"
    /\ epoch >= cfg.epochs_v
    /\ IF loc.target_values = Unassigned
       THEN /\ pc' = "error"
            /\ UNCHANGED loc
       ELSE /\ loc' = [loc EXCEPT !.v_loss_after =
                           <<LossV(VOut(vpar, paths), loc.target_values[1])>>]
            /\ pc' = "adv"
    /\ UNCHANGED <<cfg, graph, itr, epoch, batches, paths, vpar, mpar, l, beta, sink, hist>>
    /\ UNCHANGED approxVars

\* lines 104-109: advantages, TD error, normalisation
Advantages ==
    /\ pc = "adv"
    /\ LET vv == VOut(vpar, paths)
           av == Gae(paths, vv, LambdaNum, LambdaDen)
           td == Gae(paths, vv, 0, 1)
       IN  loc' = [loc EXCEPT !.v_values = <<vv>>,
                              !.mstde = <<Mean([t \in DOMAIN td |-> td[t] * td[t]])>>,
                              !.a_values = <<NormAdv(av)>>]
    /\ hist' = [hist EXCEPT !.adv = @ + 1]
    /\ pc' = "old_lp"
    /\ UNCHANGED <<cfg, graph, itr, epoch, batches, paths, vpar, mpar, l, beta, sink>>
    /\ UNCHANGED approxVars

\* lines 115-116: old_lp and pi_loss_before
OldLogProbs ==
    /\ pc = "old_lp"
    /\ LET lp == LogProb(mpar, l, beta)
       IN  \E loss \in LossPi(lp, lp, loc.a_values[1]) :
               loc' = [loc EXCEPT !.old_lp = <<lp>>, !.pi_loss_before = <<loss>>]
    /\ hist' = [hist EXCEPT !.oldlp = @ + 1]
    /\ pc' = "push"
    /\ UNCHANGED <<cfg, graph, itr, epoch, batches, paths, vpar, mpar, l, beta, sink>>
    /\ UNCHANGED approxVars

\* A mutant of BetaPush: beta is pushed in the first iteration only
BetaPushOnce ==
    /\ pc = "push"
    /\ IF itr = 0
       THEN /\ beta' = FSub(EstimateEntropy(l, beta), BetaLin)
            /\ hist' = [hist EXCEPT !.push = @ + 1]
       ELSE UNCHANGED <<beta, hist>>
    /\ epoch' = 0
    /\ pc' = "pi_epoch"
    /\ UNCHANGED <<cfg, graph, itr, batches, paths, vpar, mpar, l, loc, sink>>
    /\ UNCHANGED approxVars

\* line 117: beta.load(pi.estimate_entropy(paths["obs"]) - beta_lin, session)
BetaPush ==
    /\ pc = "push"
    /\ beta' = FSub(EstimateEntropy(l, beta), BetaLin)
    /\ hist' = [hist EXCEPT !.push = @ + 1]
    /\ epoch' = 0
    /\ pc' = "pi_epoch"
    /\ UNCHANGED <<cfg, graph, itr, batches, paths, vpar, mpar, l, loc, sink>>
    /\ UNCHANGED approxVars

\* lines 118-119: the head of one policy epoch
PiEpochBegin ==
    /\ pc = "pi_epoch"
    /\ epoch < cfg.epochs_pi
    /\ batches' = MinibatchIdxList(BatchSize, Len(paths.rwd))
    /\ pc' = "pi_batch"
    /\ UNCHANGED <<cfg, graph, itr, epoch, paths, vpar, mpar, l, beta, loc, sink, hist>>
    /\ UNCHANGED approxVars

\* the scales Adam can move l to in one step: every dimension moves by at most
\* one table entry, all the same way
StepScales(ll) ==
    { [i \in DOMAIN ll |->
          IF ll[i] + dl \in DOMAIN LogTable THEN ll[i] + dl ELSE ll[i]] :
        dl \in {-1, 0, 1} }

\* lines 120-126: session.run(optimize_pi, dct_pi) on one mini-batch; a nan
\* advantage makes the gradient, and with it every policy parameter, nan
PiStep ==
    /\ pc = "pi_batch"
    /\ batches # <<>>
    /\ IF \E t \in Head(batches) : IsNaN(loc.a_values[1][t])
       THEN /\ mpar' = NaN
            /\ l' = [i \in DOMAIN l |-> NaN]
       ELSE /\ mpar' = IF IsNaN(mpar) THEN NaN ELSE 1
            /\ l' \in IF HasNaN(l) THEN {l} ELSE StepScales(l)
    /\ hist' = [hist EXCEPT !.pistep = @ + 1]
    /\ batches' = Tail(batches)
    /\ UNCHANGED <<pc, cfg, graph, itr, epoch, paths, vpar, beta, loc, sink>>
    /\ UNCHANGED approxVars

\* line 119 exhausted: next epoch
PiEpochEnd ==
    /\ pc = "pi_batch"
    /\ batches = <<>>
    /\ epoch' = epoch + 1
    /\ pc' = "pi_epoch"
    /\ UNCHANGED <<cfg, graph, itr, batches, paths, vpar, mpar, l, beta, loc, sink, hist>>
    /\ UNCHANGED approxVars

\* line 127: pi_loss_after
PiLossAfter ==
    /\ pc = "pi_epoch"
    /\ epoch >= cfg.epochs_pi
    /\ \E loss \in LossPi(LogProb(mpar, l, beta), loc.old_lp[1], loc.a_values[1]) :
           loc' = [loc EXCEPT !.pi_loss_after = <<loss>>]
    /\ pc' = "report"
    /\ UNCHANGED <<cfg, graph, itr, epoch, batches, paths, vpar, mpar, l, beta, sink, hist>>
    /\ UNCHANGED approxVars

\* np.sum(paths["rwd"]) / paths["nb_paths"]
AvgRwd(p) == FSum(p.rwd) \div p.nb_paths

\* the row of line 139
Row(lc, entr, avg_rwd) ==
    <<lc.v_loss_before[1], lc.v_loss_after[1], lc.pi_loss_before[1], lc.pi_loss_after[1],
      entr, avg_rwd, lc.mstde[1]>>

\* lines 135-139: avg_rwd, entr, the console line and the appended row
Report ==
    /\ pc = "report"
    /\ IF loc.v_loss_before = Unassigned
       THEN /\ pc' = "error"
            /\ UNCHANGED <<sink, itr>>
       ELSE /\ sink' = [rows |-> sink.rows + 1,
                         last |-> Row(loc, EstimateEntropy(l, beta), AvgRwd(paths))]
            /\ itr' = itr + 1
            /\ pc' = "loop"
    /\ UNCHANGED <<cfg, graph, epoch, batches, paths, vpar, mpar, l, beta, loc, hist>>
    /\ UNCHANGED approxVars

\* line 141: the loop is exhausted
SessionClose ==
    /\ pc = "loop"
    /\ itr >= cfg.maxiter
    /\ pc' = "done"
    /\ UNCHANGED <<cfg, graph, itr, epoch, batches, paths, vpar, mpar, l, beta, loc, sink, hist>>
    /\ UNCHANGED approxVars

Next ==
    \/ SetupInputs \/ AssertBounds \/ BuildPi \/ BuildV \/ BuildPiOpt \/ InitVariables
    \/ Collect \/ VEpochBegin \/ VStep \/ VEpochEnd \/ VLossAfter \/ Advantages
    \/ OldLogProbs \/ BetaPush \/ PiEpochBegin \/ PiStep \/ PiEpochEnd \/ PiLossAfter
    \/ Report \/ SessionClose

Spec == Init /\ [][Next]_vars

----------------------------------------------------------------------------
\* Properties of main()

PolicyBuilt == l # <<>>

Asymmetric == \E i \in DOMAIN cfg.act_high : cfg.act_high[i] # -cfg.act_low[i]

InIteration == pc \in {"v_epoch", "v_batch", "adv", "old_lp", "push", "pi_epoch",
                       "pi_batch", "report"}

\* C1 (as claimed): in every state of the trainer in which the policy exists, the
\* closed-form entropy of the used scale is at least beta.
C1_EntropyFloor == PolicyBuilt => FLeq(beta, UsedEntropy(l, beta))

\* C2 (as claimed): old log-probabilities are computed only after the iteration's
\* beta push, which follows the advantages and precedes every policy gradient step.
C2_PushBeforeOldLogProbs ==
    /\ hist.push <= 1
    /\ hist.push = 1 => hist.adv = 1
    /\ hist.oldlp > 0 => hist.push = 1
    /\ hist.pistep > 0 => hist.push = 1 /\ hist.oldlp = 1

\* C2 (amended): in every iteration the advantages, the old log-probabilities and
\* the beta push each happen at most once and in this order; the value epochs are
\* over before the advantages; no policy gradient step precedes the push; an
\* iteration that reaches Report has done each of the three exactly once.
C2_IterationOrder ==
    /\ hist.adv <= 1 /\ hist.oldlp <= 1 /\ hist.push <= 1
    /\ hist.adv = 1 => hist.ntarget = cfg.epochs_v /\ pc \notin {"v_epoch", "v_batch"}
    /\ hist.oldlp = 1 => hist.adv = 1
    /\ hist.push = 1 => hist.oldlp = 1
    /\ hist.pistep > 0 => hist.push = 1
    /\ pc \in {"pi_epoch", "pi_batch", "report"} => hist.push = 1
    /\ pc = "push" => hist.oldlp = 1 /\ hist.push = 0 /\ hist.pistep = 0

\* C2 witness: a policy gradient step of the second iteration, after its push.
C2_Witness == pc = "pi_batch" /\ itr = 1 /\ hist.pistep > 0 /\ hist.push = 1

\* C3 (as claimed): a failed bounds assertion leaves no graph element built.
C3_NothingBuilt == pc = "assert_failed" => graph = {}

\* C3 (amended): with asymmetric bounds setup stops at the assertion with the
\* observation placeholder as the only graph element: no variable, approximator,
\* policy or optimizer is built and the loop is never entered; the assertion fails
\* for asymmetric bounds only.
C3_AssertBeforePolicy ==
    /\ Asymmetric =>
          /\ pc \in {"start", "assert", "assert_failed"}
          /\ graph \subseteq {"obs"}
          /\ ~PolicyBuilt /\ vpar = <<>>
          /\ paths.nb_paths = 0 /\ hist = HistInit /\ loc = LocInit
          /\ itr = 0 /\ sink.rows = 0
    /\ pc = "assert_failed" => Asymmetric /\ graph = {"obs"}

\* C3 witness: the assertion has failed.
C3_Witness == pc = "assert_failed" /\ Asymmetric /\ cfg.act_size = 5

\* C6 (as claimed): once setup has succeeded the run ends only by exhausting the
\* loop, after maxiter iterations, with one seven-column row per iteration.
C6_RunsMaxiterIterations ==
    /\ pc # "error"
    /\ pc = "done" => itr = cfg.maxiter /\ sink.rows = cfg.maxiter
    /\ InIteration \/ pc = "loop" => sink.rows = itr
    /\ sink.rows > 0 => Len(sink.last) = 7

\* C7 (as claimed): an undefined (nan) advantage is never fed to the policy loss
\* or to a policy gradient step.
C7_NoUndefinedAdvantageFed ==
    hist.oldlp > 0 \/ hist.pistep > 0 => ~HasNaN(loc.a_values[1])

\* C8: during a value epoch the target is the one computed once, at the head of
\* the epoch, from v's parameters as the epoch was entered, and it is what every
\* mini-batch step of the epoch is fed; between epochs one target has been
\* computed per finished epoch.
C8_TargetPerEpoch ==
    LET vv == VOut(hist.vsnap, paths)
        av == Gae(paths, vv, LambdaNum, LambdaDen)
        expected == [t \in DOMAIN vv |-> vv[t] + av[t]]
    IN  /\ pc = "v_batch" =>
              /\ hist.ntarget = epoch + 1
              /\ loc.target_values = <<expected>>
              /\ \A f \in hist.fed : f[2] = expected[f[1]]
        /\ pc = "v_epoch" => hist.ntarget = epoch

\* C8 witness: a mini-batch step of the second epoch, v having changed in the first.
C8_Witness ==
    /\ pc = "v_batch" /\ epoch = 1 /\ itr = 0
    /\ Len(paths.rwd) = 2 /\ hist.vsnap[2] = 4 /\ hist.fed # {}

\* C9 (as claimed): whatever the epoch counts, no local is read before it is
\* assigned and Report finds all its diagnostics assigned.
C9_LocalsAssigned ==
    /\ pc # "error"
    /\ pc = "report" =>
          /\ loc.v_loss_before # Unassigned /\ loc.v_loss_after # Unassigned
          /\ loc.pi_loss_before # Unassigned /\ loc.pi_loss_after # Unassigned
          /\ loc.mstde # Unassigned

\* C10 (as claimed): setup leaves beta at the initial entropy, so the used scale is
\* the raw one; a push sets beta to the entropy of the used scale minus beta_lin,
\* never raises that entropy, lowers it by at most beta_lin, and leaves the used
\* scale alone when the raw entropy is at least the old beta.
C10_BetaPush ==
    /\ [](pc = "loop" /\ itr = 0 =>
              /\ beta = RawEntropy(l)
              /\ UsedLogStd(l, beta) = [i \in DOMAIN l |-> Len(l) * Log(l[i])])
    /\ [][pc = "push" =>
              LET e == UsedEntropy(l, beta)
                  e2 == UsedEntropy(l', beta')
              IN  /\ beta' = FSub(e, BetaLin)
                  /\ FLeq(e2, e)
                  /\ FLeq(FSub(e, BetaLin), e2)
                  /\ FLeq(beta, RawEntropy(l)) => UsedLogStd(l', beta') = UsedLogStd(l, beta)
       ]_vars

----------------------------------------------------------------------------
\* approximators.py: the tf graph state the classes work on.  Inputs have one
\* dimension and outputs one column (size = 1); weights and outputs are integers
\* in units of the reset noise, 0.5e-8, inputs and features are plain numbers; a
\* variable's value is the column of its rows.  A variable's
\* name is <<scope, layer or "Variable", suffix>>; the scope of a variable made
\* outside every variable scope is "".

Scopes == {"a", "b"}
Inputs == {-2, -1, 0, 1, 2}

\* magnitude of 1e-8 * (np.random.rand(...) - 0.5)
NoiseMax == 1

\* the number 1.0 in units of the reset noise: 1 / 0.5e-8
UnitsPerOne == 200000000
NoiseVals == {-NoiseMax, NoiseMax}

\* values reset is called with, and values the initializers draw
ResetVals == {-1000, 0, 1000}
InitVals == {-500, 500}

Abs(x) == IF x < 0 THEN -x ELSE x

RECURSIVE Dot(_, _)
Dot(phi, w) ==
    IF phi = <<>> THEN 0 ELSE Head(phi) * Head(w) + Dot(Tail(phi), Tail(w))

RECURSIVE SortedSeq(_)
SortedSeq(S) ==
    IF S = {} THEN <<>>
    ELSE LET m == CHOOSE x \in S : \A y \in S : x <= y
         IN  <<m>> \o SortedSeq(S \ {m})

\* tf.trainable_variables(scope=scope): the variables named under scope, in
\* creation order, as indices of the collection tv
TrainableVariables(tv, scope) == SortedSeq({i \in DOMAIN tv : tv[i][1] = scope})

IndexOf(tv, name) == CHOOSE i \in DOMAIN tv : tv[i] = name

\* the number of dimensions of a variable's shape: a dense bias has one
Rank(name) == IF name[3] = "bias" THEN 1 ELSE 2

\* tf.get_variable under reuse=tf.AUTO_REUSE: the variable of that name, created
\* with the initial value when there is none
GetVariable(ts, name, init) ==
    IF \E i \in DOMAIN ts.tv : ts.tv[i] = name THEN ts
    ELSE [tv |-> Append(ts.tv, name), st |-> Append(ts.st, init)]

\* tf.get_variable raises ValueError when the variable exists with another shape
ShapeClash(ts, scope, layer, rows) ==
    \E i \in DOMAIN ts.tv : ts.tv[i] = <<scope, layer, "kernel">> /\ Len(ts.st[i]) # rows

\* tf.layers.dense(..., name=layer, use_bias=use_bias, reuse=tf.AUTO_REUSE)
Dense(ts, scope, layer, rows, use_bias, w) ==
    LET ts1 == GetVariable(ts, <<scope, layer, "kernel">>, [r \in 1..rows |-> w])
    IN  IF use_bias THEN GetVariable(ts1, <<scope, layer, "bias">>, <<0>>) ELSE ts1

\* tf.Variable(value): always a new variable, added to the trainable collection
NewVariable(ts, scope, value) ==
    [tv |-> Append(ts.tv, <<scope, "Variable", ToString(Len(ts.tv))>>),
     st |-> Append(ts.st, value)]

\* features ------------------------------------------------------------------

\* Quadratic: [1, x] x [1, x], k <= j
QuadraticPhi(x) == <<1, x, x * x>>

\* sin at k quarter turns
Sin(k) == <<0, 1, 0, -1>>[(k % 4) + 1]

\* Fourier: sin(x / bandwidth * P + shift) with the constant feature prepended
FourierPhi(x, P, shift) == <<1, Sin(x * P + shift)>>

\* n / d rounded to the nearest integer
Round(n, d) == (2 * n + d) \div (2 * d)

\* exp(-(d / 10)^2) in thousandths, at the distances Inputs has to the centers
ExpNegSq(d) ==
    CASE Abs(d) = 1 -> 990
      [] Abs(d) = 6 -> 698
      [] Abs(d) = 11 -> 298
      [] Abs(d) = 16 -> 77
      [] Abs(d) = 21 -> 12

\* RFB with x_space = [[-2, 2]] and n_centers = 2: B = 0.5, centers -2.2 and 2.2;
\* exp(-(xB - cB)^2) in thousandths, xB and cB in tenths
Rbf(x, c) == ExpNegSq(5 * x - c)
RFBPhi(x) == <<1000, Rbf(x, -11), Rbf(x, 11)>>

\* MLP: the hidden layer's tanh of a pre-activation of z noise units, times
\* UnitsPerOne.  The weights of the model keep |z| below 1e4 units, 5e-5 as a
\* number, where tanh(t) differs from t by less than t^3 / 3 < 1e-13.
Tanh(z) == z

\* self.output[0] evaluated at input x under the variable values st
Output(inst, x, st) ==
    LET p == inst.params
    IN  CASE inst.kind = "MLP" ->
                Round(st[p[3]][1] * Tanh(st[p[1]][1] * x + st[p[2]][1]), UnitsPerOne)
                + st[p[4]][1]
          [] inst.kind = "Quadratic" -> Dot(QuadraticPhi(x), st[p[1]])
          [] inst.kind = "Linear" ->
                IF inst.use_bias THEN st[p[1]][1] * x + st[p[2]][1] ELSE st[p[1]][1] * x
          [] inst.kind = "Fourier" -> Dot(FourierPhi(x, inst.P, inst.shift), st[p[1]])
          [] inst.kind = "RFB" -> Round(Dot(RFBPhi(x), st[p[1]]), 1000)

----------------------------------------------------------------------------
\* approximators.py: constructors

Instance(kind, scope, ts, params, use_bias, P, shift) ==
    [kind |-> kind, scope |-> scope, vars |-> TrainableVariables(ts.tv, scope),
     params |-> params, use_bias |-> use_bias, P |-> P, shift |-> shift]

Built(ts, inst) ==
    /\ tvars' = ts.tv
    /\ store' = ts.st
    /\ insts' = Append(insts, inst)
    /\ lastop' = [op |-> "init", inst |-> Len(insts) + 1, value |-> 0]
    /\ UNCHANGED trainVars

\* the constructor raised in its first tf.layers.dense: nothing was created
InitRaised ==
    /\ lastop' = [op |-> "init_error", inst |-> 0, value |-> 0]
    /\ UNCHANGED <<tvars, store, insts>>
    /\ UNCHANGED trainVars

\* MLP.__init__ (lines 25-37) with x = [obs], sizes = [1, 1], activations =
\* [tf.nn.tanh, None] as main() builds its networks, no dropout
MLPInit ==
    /\ Len(insts) < MaxInst
    /\ \E scope \in Scopes, w \in InitVals :
        LET ts0 == [tv |-> tvars, st |-> store]
            ts == Dense(Dense(ts0, scope, "0", 1, TRUE, w), scope, "1", 1, TRUE, w)
            params == <<IndexOf(ts.tv, <<scope, "0", "kernel">>),
                        IndexOf(ts.tv, <<scope, "0", "bias">>),
                        IndexOf(ts.tv, <<scope, "1", "kernel">>),
                        IndexOf(ts.tv, <<scope, "1", "bias">>)>>
        IN  IF ShapeClash(ts0, scope, "0", 1)
            THEN InitRaised
            ELSE Built(ts, Instance("MLP", scope, ts, params, TRUE, 0, 0))

\* Quadratic.__init__ (lines 55-68)
QuadraticInit ==
    /\ Len(insts) < MaxInst
    /\ \E scope \in Scopes, w \in InitVals :
        LET ts0 == [tv |-> tvars, st |-> store]
            ts == Dense(ts0, scope, "0", 3, FALSE, w)
            params == <<IndexOf(ts.tv, <<scope, "0", "kernel">>)>>
        IN  IF ShapeClash(ts0, scope, "0", 3)
            THEN InitRaised
            ELSE Built(ts, Instance("Quadratic", scope, ts, params, FALSE, 0, 0))

\* Linear.__init__ (lines 86-96)
LinearInit ==
    /\ Len(insts) < MaxInst
    /\ \E scope \in Scopes, use_bias \in BOOLEAN, w \in InitVals :
        LET ts0 == [tv |-> tvars, st |-> store]
            ts == Dense(ts0, scope, "0", 1, use_bias, w)
            params == IF use_bias
                      THEN <<IndexOf(ts.tv, <<scope, "0", "kernel">>),
                             IndexOf(ts.tv, <<scope, "0", "bias">>)>>
                      ELSE <<IndexOf(ts.tv, <<scope, "0", "kernel">>)>>
        IN  IF ShapeClash(ts0, scope, "0", 1)
            THEN InitRaised
            ELSE Built(ts, Instance("Linear", scope, ts, params, use_bias, 0, 0))

\* Fourier.__init__ (lines 120-136) with n_feat = 1
FourierInit ==
    /\ Len(insts) < MaxInst
    /\ \E scope \in Scopes, w \in InitVals, ps \in {<<1, 0>>, <<2, 1>>} :
        LET ts == NewVariable([tv |-> tvars, st |-> store], scope, <<w, w>>)
        IN  Built(ts, Instance("Fourier", scope, ts, <<Len(ts.tv)>>, FALSE, ps[1], ps[2]))

\* RFB.__init__ (lines 157-181) with n_centers = 2
RFBInit ==
    /\ Len(insts) < MaxInst
    /\ \E scope \in Scopes, w \in InitVals :
        LET ts == NewVariable([tv |-> tvars, st |-> store], scope, <<w, w, w>>)
        IN  Built(ts, Instance("RFB", scope, ts, <<Len(ts.tv)>>, FALSE, 0, 0))

----------------------------------------------------------------------------
\* approximators.py: reset

\* the temporaries resets have left in the trainable collection
NumTemps == Cardinality({i \in DOMAIN tvars : tvars[i][1] = ""})

\* 1e-8 * (np.random.rand(shape[0], shape[1]) - 0.5), of the shape of variable v
NoiseLike(v) == [DOMAIN store[v] -> NoiseVals]

\* value * np.ones(shape), of the shape of variable v
OnesLike(v, value) == [r \in DOMAIN store[v] |-> value]

\* new_val[0] = value
FirstRowValue(noise, value) == [r \in DOMAIN noise |-> IF r = 1 THEN value ELSE noise[r]]

\* tf.Variable(new value) for every temporary, then the assignments
\* vars[targets[k]].assign(temporary k)
RECURSIVE Temporaries(_, _)
Temporaries(ts, vals) ==
    IF vals = <<>> THEN ts
    ELSE Temporaries(NewVariable(ts, "", Head(vals)), Tail(vals))

RECURSIVE Assign(_, _, _)
Assign(st, targets, vals) ==
    IF targets = <<>> THEN st
    ELSE Assign([st EXCEPT ![Head(targets)] = Head(vals)], Tail(targets), Tail(vals))

Called(i, value, targets, vals) ==
    LET ts == Temporaries([tv |-> tvars, st |-> store], vals)
    IN  /\ tvars' = ts.tv
        /\ store' = Assign(ts.st, targets, vals)
        /\ lastop' = [op |-> "reset", inst |-> i, value |-> value]
        /\ UNCHANGED insts
        /\ UNCHANGED trainVars

\* shape[1] of a one-dimensional shape raises IndexError before anything is made
ResetRaised(i, value) ==
    /\ lastop' = [op |-> "reset_error", inst |-> i, value |-> value]
    /\ UNCHANGED <<tvars, store, insts>>
    /\ UNCHANGED trainVars

\* lines 41-45 and 100-104: vars[-2] to noise, vars[-1] to value
ResetKernelAndBias(i, value) ==
    LET vs == insts[i].vars
        n == Len(vs)
    IN  IF Rank(tvars[vs[n - 1]]) # 2
        THEN ResetRaised(i, value)
        ELSE \E noise \in NoiseLike(vs[n - 1]) :
                Called(i, value, <<vs[n - 1], vs[n]>>, <<noise, OnesLike(vs[n], value)>>)

\* lines 71-75, 139-143, 184-188: vars[0] to noise with the first row at value
ResetFirstRow(i, value) ==
    LET vs == insts[i].vars
    IN  IF Rank(tvars[vs[1]]) # 2
        THEN ResetRaised(i, value)
        ELSE \E noise \in NoiseLike(vs[1]) :
                Called(i, value, <<vs[1]>>, <<FirstRowValue(noise, value)>>)

\* lines 105-108: vars[-1] to noise
ResetKernelOnly(i, value) ==
    LET vs == insts[i].vars
        n == Len(vs)
    IN  IF Rank(tvars[vs[n]]) # 2
        THEN ResetRaised(i, value)
        ELSE \E noise \in NoiseLike(vs[n]) : Called(i, value, <<vs[n]>>, <<noise>>)

\* MLP.reset (lines 40-45)
MLPReset ==
    /\ NumTemps < MaxTemps
    /\ \E i \in DOMAIN insts, value \in ResetVals :
        /\ insts[i].kind = "MLP"
        /\ ResetKernelAndBias(i, value)

\* Quadratic.reset (lines 70-75)
QuadraticReset ==
    /\ NumTemps < MaxTemps
    /\ \E i \in DOMAIN insts, value \in ResetVals :
        /\ insts[i].kind = "Quadratic"
        /\ ResetFirstRow(i, value)

\* Linear.reset (lines 98-108)
LinearReset ==
    /\ NumTemps < MaxTemps
    /\ \E i \in DOMAIN insts, value \in ResetVals :
        /\ insts[i].kind = "Linear"
        /\ IF Len(insts[i].vars) = 2
           THEN ResetKernelAndBias(i, value)
           ELSE ResetKernelOnly(i, value)

\* Fourier.reset (lines 138-143)
FourierReset ==
    /\ NumTemps < MaxTemps
    /\ \E i \in DOMAIN insts, value \in ResetVals :
        /\ insts[i].kind = "Fourier"
        /\ ResetFirstRow(i, value)

\* RFB.reset (lines 183-188)
RFBReset ==
    /\ NumTemps < MaxTemps
    /\ \E i \in DOMAIN insts, value \in ResetVals :
        /\ insts[i].kind = "RFB"
        /\ ResetFirstRow(i, value)

\* the trainer is not running
TrainerIdle ==
    /\ pc = "start"
    /\ cfg = [act_size |-> 1, act_high |-> ActHigh(1), act_low |-> ActLow(1, 0),
              maxiter |-> 0, epochs_v |-> 0, epochs_pi |-> 0]
    /\ graph = {} /\ itr = 0 /\ epoch = 0 /\ batches = <<>>
    /\ paths = [rwd |-> <<>>, nb_paths |-> 0]
    /\ vpar = <<>> /\ mpar = 0 /\ l = <<>> /\ beta = 0
    /\ loc = LocInit /\ sink = [rows |-> 0, last |-> <<>>] /\ hist = HistInit

InitApprox == TrainerIdle /\ ApproxIdle

NextApprox ==
    \/ MLPInit \/ QuadraticInit \/ LinearInit \/ FourierInit \/ RFBInit
    \/ MLPReset \/ QuadraticReset \/ LinearReset \/ FourierReset \/ RFBReset

SpecApprox == InitApprox /\ [][NextApprox]_vars

----------------------------------------------------------------------------
\* Properties of the approximators, checked under SpecApprox

\* the output moves by at most this much on Inputs when every row is noise
Tol == NoiseMax * (2 + 2 * 2)

\* the instance's vars list is exactly the parameters its output is computed from
OwnsVars(inst) == inst.vars = inst.params

SingleMatrix(inst) == inst.kind \in {"Quadratic", "Fourier", "RFB"}

LinearNoBias(inst) == inst.kind = "Linear" /\ ~inst.use_bias

ResetDone == lastop.op = "reset"

OutputNear(inst, value) == \A x \in Inputs : Abs(Output(inst, x, store) - value) <= Tol

FirstRowAt(inst, value) ==
    LET m == store[inst.vars[1]]
    IN  m[1] = value /\ \A r \in DOMAIN m : r # 1 => Abs(m[r]) <= NoiseMax

\* every approximator built in the scope is of one variant
OneVariant(scope) ==
    \A i, j \in DOMAIN insts :
        insts[i].scope = scope /\ insts[j].scope = scope =>
            insts[i].kind = insts[j].kind /\ insts[i].use_bias = insts[j].use_bias

\* C4 (as stated): right after reset(value=c), the output of every approximator
\* variant is c within the tolerance at every input; the single-matrix variants,
\* Linear without bias among them, have the first row at c and noise elsewhere.
C4_ResetGivesConstant ==
    ResetDone /\ OneVariant(insts[lastop.inst].scope) =>
        LET inst == insts[lastop.inst]
        IN  /\ OutputNear(inst, lastop.value)
            /\ (SingleMatrix(inst) \/ LinearNoBias(inst) => FirstRowAt(inst, lastop.value))

\* What reset does achieve when the instance's vars list is exactly its own
\* parameters: an MLP (linear output layer), a Quadratic, a Linear with
\* bias, a Fourier and an RFB output the value within the tolerance at every
\* input; a Linear without bias has its whole matrix at noise and outputs 0
\* within the tolerance.
ResetWhereOwned ==
    ResetDone /\ OwnsVars(insts[lastop.inst]) =>
        LET inst == insts[lastop.inst]
        IN  /\ inst.kind = "MLP" => OutputNear(inst, lastop.value)
            /\ inst.kind = "Linear" /\ inst.use_bias => OutputNear(inst, lastop.value)
            /\ SingleMatrix(inst) =>
                   OutputNear(inst, lastop.value) /\ FirstRowAt(inst, lastop.value)
            /\ LinearNoBias(inst) =>
                   /\ OutputNear(inst, 0)
                   /\ \A r \in DOMAIN store[inst.vars[1]] :
                          Abs(store[inst.vars[1]][r]) <= NoiseMax

\* C5: two approximators of one variant constructed in the same scope compute
\* their outputs from the same parameters, and the vars list of each is exactly
\* that shared set.
C5_SameScopeShares ==
    \A i, j \in DOMAIN insts :
        insts[i].scope = insts[j].scope /\ OneVariant(insts[i].scope) =>
            /\ insts[i].params = insts[j].params
            /\ insts[i].vars = insts[i].params
            /\ insts[j].vars = insts[i].params

====
